---- MODULE Spec2Model ----
(***************************************************************************)
(* Model of solve.py: the jigsaw Board (pieces, edges, connections,        *)
(* merges), its operations (connect_adjacent_edges, swap, shuffle,         *)
(* merge_edges, collapse_edges, check_all_unique) and the generation loop  *)
(* of main.                                                                *)
(*                                                                         *)
(* Encoding.  A Position is <<row, col>>.  Direction and Rotation are the  *)
(* enum values 0..3.  An Edge is a record [group, shape, connection,       *)
(* merges]; edges are addressed by their index in Board.edges, and None    *)
(* (no group, no connection) is the value -1, which is no index and no     *)
(* group id.  Lists are 0-based functions or 1-based sequences as noted.   *)
(***************************************************************************)
EXTENDS Integers, Sequences, FiniteSets, TLC

VARIABLES
    width,       \* Board.width
    height,      \* Board.height
    pieces,      \* Board.pieces: 0-based list of [id, edges, rotation]
    edges,       \* Board.edges: 0-based list of Edge records
    pc,          \* position of main (or of the client of the Board class)
    border,      \* shuffle: the local list `edges` of border positions
    centers,     \* shuffle: the local list `centers`
    unread,      \* shuffle: indices of the shuffled list not yet read
    cur,         \* shuffle: the triple e / c being processed
    collapse_ok, \* value returned by the last collapse_edges call
    unique_ok,   \* value returned by the last check_all_unique call
    last,        \* client calls: the last swap call and its result
    calls,       \* client calls: number of swap and merge_edges calls made
    saved_pieces \* main: the local `pieces` kept while the initial view is shown

vars == <<width, height, pieces, edges, pc, border, centers, unread, cur,
          collapse_ok, unique_ok, last, calls, saved_pieces>>

(***************************************************************************)
(* Bounds of the model.                                                    *)
(***************************************************************************)
\* number of board sizes of SizeList that main is run on
NumSizes == 6
\* number of board sizes of ApiSizeList that a client of Board is run on
NumApiSizes == 3
\* a client calls swap at most MaxSwaps times
MaxSwaps == 2
\* a client calls merge_edges at most MaxMerges times
MaxMerges == 2

\* <<width, height>> pairs, all valid (both > 1)
SizeList ==
    << <<2, 2>>, <<3, 2>>, <<3, 3>>, <<2, 5>>, <<5, 2>>, <<5, 3>>,
       <<2, 3>>, <<4, 3>>, <<3, 4>> >>

ApiSizeList ==
    << <<2, 2>>, <<3, 2>>, <<4, 2>>, <<2, 3>>, <<2, 4>> >>

Min(a, b) == IF a < b THEN a ELSE b

Sizes == {SizeList[i] : i \in 1..Min(NumSizes, Len(SizeList))}

ApiSizes == {ApiSizeList[i] : i \in 1..Min(NumApiSizes, Len(ApiSizeList))}

(***************************************************************************)
(* Constants and enums of the program.                                     *)
(***************************************************************************)
EDGE_COUNT == 4

None == -1

Flat == "Flat"
Knob == "Knob"
Socket == "Socket"

R0 == 0
R90 == 1
R180 == 2
R270 == 3
Rotation == {R0, R90, R180, R270}

Up == 0
Right == 1
Down == 2
Left == 3
\* iteration order of `for direction in Direction`
DirectionSeq == <<Up, Right, Down, Left>>
Direction == {Up, Right, Down, Left}

delta(direction) ==
    IF direction = Up THEN <<-1, 0>>
    ELSE IF direction = Down THEN <<1, 0>>
    ELSE IF direction = Right THEN <<0, 1>>
    ELSE <<0, -1>>

inverse(direction) ==
    IF direction = Up THEN Down
    ELSE IF direction = Down THEN Up
    ELSE IF direction = Right THEN Left
    ELSE Right

\* Edge(): the dataclass defaults
NewEdge == [group |-> None, shape |-> Flat, connection |-> None, merges |-> {}]

(***************************************************************************)
(* Helpers on sequences and sets.                                          *)
(***************************************************************************)
\* the elements of a set of integers in ascending order
RECURSIVE SetToSeq(_)
SetToSeq(S) ==
    IF S = {} THEN <<>>
    ELSE LET m == CHOOSE x \in S : \A y \in S : x <= y
         IN <<m>> \o SetToSeq(S \ {m})

Range(s) == {s[i] : i \in DOMAIN s}

(***************************************************************************)
(* Board geometry.                                                         *)
(***************************************************************************)
Positions(W, H) == {<<i, j>> : i \in 0..(H - 1), j \in 0..(W - 1)}

in_bounds(W, H, index) ==
    /\ 0 <= index[1]
    /\ index[1] < H
    /\ 0 <= index[2]
    /\ index[2] < W

get_piece_index(W, index) == index[1] * W + index[2]

get_edge_index(W, ps, index, direction) ==
    LET piece == ps[get_piece_index(W, index)]
        offset == (piece.rotation + direction) % EDGE_COUNT
    IN piece.edges + offset

Neighbour(index, direction) ==
    <<index[1] + delta(direction)[1], index[2] + delta(direction)[2]>>

\* the k-th (position, direction) pair, k = 1.., visited by the nested loops
\* `for i in range(height) / for j in range(width) / for direction in Direction`
Visit(W, k) ==
    LET p == (k - 1) \div EDGE_COUNT
    IN <<(<<p \div W, p % W>>), DirectionSeq[((k - 1) % EDGE_COUNT) + 1]>>

(***************************************************************************)
(* Board.__post_init__                                                     *)
(***************************************************************************)
InitialRotation(W, H, i, j) ==
    IF i = 0 THEN R270
    ELSE IF j = W - 1 THEN R180
    ELSE IF i = H - 1 THEN R90
    ELSE R0

InitialPieces(W, H) ==
    [k \in 0..(W * H - 1) |->
        [id |-> k, edges |-> EDGE_COUNT * k,
         rotation |-> InitialRotation(W, H, k \div W, k % W)]]

InitialEdges(W, H) == [e \in 0..(EDGE_COUNT * W * H - 1) |-> NewEdge]

(***************************************************************************)
(* Board.connect_edges, connect_pieces, connect_adjacent_edges             *)
(***************************************************************************)
\* [ok, edges]
connect_edges(es, from_edge_index, to_edge_index) ==
    IF from_edge_index = to_edge_index
    THEN [ok |-> FALSE, edges |-> es]
    ELSE [ok |-> TRUE,
          edges |-> [es EXCEPT ![from_edge_index].connection = to_edge_index,
                               ![to_edge_index].connection = from_edge_index]]

connect_pieces(W, ps, es, from_index, to_index) ==
    LET directions ==
            IF from_index[1] < to_index[1] THEN <<Down, Up>>
            ELSE IF from_index[1] > to_index[1] THEN <<Up, Down>>
            ELSE IF from_index[2] < to_index[2] THEN <<Right, Left>>
            ELSE <<Left, Right>>
    IN connect_edges(es,
                     get_edge_index(W, ps, from_index, directions[1]),
                     get_edge_index(W, ps, to_index, directions[2]))

RECURSIVE ConnectLoop(_, _, _, _, _)
ConnectLoop(W, H, ps, es, k) ==
    IF k > W * H * EDGE_COUNT THEN [ok |-> TRUE, edges |-> es]
    ELSE LET from_index == Visit(W, k)[1]
             to_index == Neighbour(from_index, Visit(W, k)[2])
         IN IF ~in_bounds(W, H, to_index)
            THEN ConnectLoop(W, H, ps, es, k + 1)
            ELSE LET r == connect_pieces(W, ps, es, from_index, to_index)
                 IN IF ~r.ok THEN [ok |-> FALSE, edges |-> r.edges]
                    ELSE ConnectLoop(W, H, ps, r.edges, k + 1)

connect_adjacent_edges(W, H, ps, es) == ConnectLoop(W, H, ps, es, 1)

(***************************************************************************)
(* Board.swap_pieces, Board.swap                                           *)
(***************************************************************************)
\* number of edges of the piece at `index` that have no connection
NoneCount(W, ps, es, index) ==
    Cardinality({direction \in Direction :
        es[get_edge_index(W, ps, index, direction)].connection = None})

swap_pieces(W, ps, from_index, to_index) ==
    LET fpi == get_piece_index(W, from_index)
        tpi == get_piece_index(W, to_index)
    IN [ps EXCEPT ![fpi] = ps[tpi], ![tpi] = ps[fpi]]

\* SwapRotations with the exchange of line 190 left out
SwapRotationsSkipped(W, ps, from_index, to_index) == ps

\* the simultaneous assignment of line 190 on the two Piece objects
SwapRotations(W, ps, from_index, to_index) ==
    LET fpi == get_piece_index(W, from_index)
        tpi == get_piece_index(W, to_index)
    IN [ps EXCEPT ![fpi].rotation = ps[tpi].rotation,
                  ![tpi].rotation = ps[fpi].rotation]

\* swap with the pieces exchanged before the counts are compared
swap_before_guard(W, ps, es, from_index, to_index) ==
    [ok |-> NoneCount(W, ps, es, from_index) = NoneCount(W, ps, es, to_index),
     pieces |-> swap_pieces(W, SwapRotations(W, ps, from_index, to_index),
                            from_index, to_index)]

\* [ok, pieces]
swap(W, ps, es, from_index, to_index) ==
    LET from_count == NoneCount(W, ps, es, from_index)
        to_count == NoneCount(W, ps, es, to_index)
    IN IF from_count # to_count
       THEN [ok |-> FALSE, pieces |-> ps]
       ELSE LET rotated == IF from_count > 0
                           THEN SwapRotations(W, ps, from_index, to_index)
                           ELSE ps
            IN [ok |-> TRUE,
                pieces |-> swap_pieces(W, rotated, from_index, to_index)]

(***************************************************************************)
(* Board.shuffle: the two position lists                                   *)
(***************************************************************************)
\* `for j in range(1, W - 1): if i == j: continue; edges.append((i, j))`
BorderRow(W, i) ==
    SelectSeq([j \in 1..(W - 2) |-> <<i, j>>], LAMBDA p : p[1] # p[2])

\* `for i in range(1, H - 1): if i == j: continue; edges.append((i, j))`
BorderColumn(H, j) ==
    SelectSeq([i \in 1..(H - 2) |-> <<i, j>>], LAMBDA p : p[1] # p[2])

BorderList(W, H) ==
    BorderRow(W, 0) \o BorderRow(W, H - 1)
        \o BorderColumn(H, 0) \o BorderColumn(H, W - 1)

CenterList(W, H) ==
    [k \in 1..((H - 2) * (W - 2)) |->
        <<1 + ((k - 1) \div (W - 2)), 1 + ((k - 1) % (W - 2))>>]

\* random.shuffle followed by reading the list three entries at a time:
\* every read takes three distinct entries, in any order, among the
\* entries no earlier read has taken.
Triples(S) ==
    {t \in S \X S \X S : t[1] # t[2] /\ t[1] # t[3] /\ t[2] # t[3]}

(***************************************************************************)
(* Board.merge_edges                                                       *)
(***************************************************************************)
\* [ok, edges]; ok = FALSE when the loop reads a connection that is None
\* (to_edge.merges then raises AttributeError)
RECURSIVE MergeLoop(_, _, _, _, _)
MergeLoop(W, H, ps, es, k) ==
    IF k > W * H * EDGE_COUNT THEN [ok |-> TRUE, edges |-> es]
    ELSE LET from_index == Visit(W, k)[1]
             direction == Visit(W, k)[2]
             to_index == Neighbour(from_index, direction)
         IN IF ~in_bounds(W, H, to_index)
            THEN MergeLoop(W, H, ps, es, k + 1)
            ELSE LET from_edge == get_edge_index(W, ps, from_index, direction)
                     adjacent_edge_index ==
                         get_edge_index(W, ps, to_index, inverse(direction))
                     to_edge == es[adjacent_edge_index].connection
                 IN IF to_edge = None
                    THEN [ok |-> FALSE, edges |-> es]
                    ELSE LET es1 == [es EXCEPT ![from_edge].merges = @ \cup {to_edge}]
                             es2 == [es1 EXCEPT ![to_edge].merges = @ \cup {from_edge}]
                         IN MergeLoop(W, H, ps, es2, k + 1)

merge_edges(W, H, ps, es) == MergeLoop(W, H, ps, es, 1)

(***************************************************************************)
(* Board.collapse_edges                                                    *)
(***************************************************************************)
\* MergeWalk with `queue += next_edge.merges` left out
MergeWalkNoPush(es, queue, group) == {queue[Len(queue)]}

\* lines 296-304: the stack walk over merges from one edge.  `queue` is a
\* sequence popped at its end; a popped edge pushes its merges (pushed here
\* in ascending index order; the resulting set does not depend on it).
RECURSIVE MergeWalk(_, _, _)
MergeWalk(es, queue, group) ==
    IF queue = <<>> THEN group
    ELSE LET n == Len(queue)
             next_edge == queue[n]
             rest == SubSeq(queue, 1, n - 1)
         IN IF next_edge \in group
            THEN MergeWalk(es, rest, group)
            ELSE MergeWalk(es, rest \o SetToSeq(es[next_edge].merges),
                           group \cup {next_edge})

\* lines 286-309: edge_group_map as a function edge index -> group id,
\* None where the dict has no key; count = len(groups)
RECURSIVE GroupLoop(_, _, _, _)
GroupLoop(es, e, edge_group_map, count) ==
    IF e \notin DOMAIN es THEN [map |-> edge_group_map, count |-> count]
    ELSE IF es[e].connection = None \/ edge_group_map[e] # None
    THEN GroupLoop(es, e + 1, edge_group_map, count)
    ELSE LET group == MergeWalk(es, <<e>>, {})
         IN GroupLoop(es, e + 1,
                [x \in DOMAIN es |->
                    IF x \in group THEN count ELSE edge_group_map[x]],
                count + 1)

EdgeGroups(es) == GroupLoop(es, 0, [x \in DOMAIN es |-> None], 0)

\* lines 311-317: group id -> set of connected group ids
GroupConnections(es, edge_group_map, count) ==
    [g \in 0..(count - 1) |->
        {edge_group_map[es[e].connection] :
            e \in {x \in DOMAIN es :
                     es[x].connection # None /\ edge_group_map[x] = g}}]

\* lines 326-342: the stack walk over groups from one group; entries of
\* `queue` are <<group id, depth>>, `layers` is the set of
\* <<depth, group id>> with group id in layers[depth]
RECURSIVE DepthWalk(_, _, _, _, _)
DepthWalk(group_connections, group_group_map, queue, seen, layers) ==
    IF queue = <<>> THEN layers
    ELSE LET n == Len(queue)
             group_id == queue[n][1]
             depth == queue[n][2]
             rest == SubSeq(queue, 1, n - 1)
             pushed == SetToSeq(group_connections[group_id])
         IN IF group_group_map[group_id] # None
            THEN DepthWalk(group_connections, group_group_map, rest, seen, layers)
            ELSE IF group_id \in seen
            THEN DepthWalk(group_connections, group_group_map, rest, seen, layers)
            ELSE DepthWalk(group_connections, group_group_map,
                    rest \o [i \in 1..Len(pushed) |-> <<pushed[i], depth + 1>>],
                    seen \cup {group_id},
                    layers \cup {<<depth, group_id>>})

\* lines 344-349
EvenSet(layers) == {l[2] : l \in {x \in layers : x[1] % 2 = 0}}

OddSet(layers) == {l[2] : l \in {x \in layers : x[1] % 2 # 0}}

\* lines 351-352: the non-bipartite test
LayersClash(layers) == EvenSet(layers) \cap OddSet(layers) # {}

\* lines 322-361: group_groups as a sequence (gg_id = index - 1) of sets of
\* group ids; group_group_shape[gg_id] is Knob for the even set and Socket
\* for the odd set of each walk, so it is Knob iff gg_id is even.
\* [ok, group_groups]
RECURSIVE ColourLoop(_, _, _, _, _)
ColourLoop(group_connections, count, g, group_group_map, group_groups) ==
    IF g >= count THEN [ok |-> TRUE, group_groups |-> group_groups]
    ELSE IF group_group_map[g] # None
    THEN ColourLoop(group_connections, count, g + 1, group_group_map, group_groups)
    ELSE LET layers == DepthWalk(group_connections, group_group_map,
                                 << <<g, 0>> >>, {}, {})
             even == EvenSet(layers)
             odd == OddSet(layers)
             even_id == Len(group_groups)
             odd_id == Len(group_groups) + 1
         IN IF LayersClash(layers)
            THEN [ok |-> FALSE, group_groups |-> group_groups]
            ELSE ColourLoop(group_connections, count, g + 1,
                    [x \in DOMAIN group_group_map |->
                        IF x \in odd THEN odd_id
                        ELSE IF x \in even THEN even_id
                        ELSE group_group_map[x]],
                    group_groups \o <<even, odd>>)

\* group_group_shape with both sets of a walk given Knob
group_group_shape_knob(gg_id) == Knob

group_group_shape(gg_id) == IF gg_id % 2 = 0 THEN Knob ELSE Socket

\* FinalGroup without the halving
FinalGroupNotHalved(gg_id) == gg_id

\* line 368
FinalGroup(gg_id) == gg_id \div 2

\* lines 363-369: every edge of every group of every group_group gets the
\* group_group's id and shape; a later group_group overwrites an earlier one
AssignShapes(es, edge_group_map, group_groups) ==
    [e \in DOMAIN es |->
        LET ggs == {i \in 1..Len(group_groups) :
                        edge_group_map[e] \in group_groups[i]}
        IN IF edge_group_map[e] = None \/ ggs = {} THEN es[e]
           ELSE LET gg_id == (CHOOSE i \in ggs : \A j \in ggs : j <= i) - 1
                IN [es[e] EXCEPT !.group = FinalGroup(gg_id),
                                 !.shape = group_group_shape(gg_id)]]

\* [ok, edges]
collapse_edges(es) ==
    LET eg == EdgeGroups(es)
        group_connections == GroupConnections(es, eg.map, eg.count)
        coloured == ColourLoop(group_connections, eg.count, 0,
                               [g \in 0..(eg.count - 1) |-> None], <<>>)
    IN IF ~coloured.ok THEN [ok |-> FALSE, edges |-> es]
       ELSE [ok |-> TRUE,
             edges |-> AssignShapes(es, eg.map, coloured.group_groups)]

(***************************************************************************)
(* Board.check_all_unique                                                  *)
(***************************************************************************)
\* PieceTuple read through the piece's rotation, in the order Up, Right,
\* Down, Left
PieceTupleByDirection(es, piece) ==
    [k \in 1..EDGE_COUNT |->
        LET e == piece.edges + ((piece.rotation + DirectionSeq[k]) % EDGE_COUNT)
        IN <<es[e].group, es[e].shape>>]

\* lines 377-382: the tuple of (group, shape) of self.edges[piece.edges:
\* piece.edges + EDGE_COUNT]
PieceTuple(es, piece) ==
    [k \in 1..EDGE_COUNT |->
        <<es[piece.edges + k - 1].group, es[piece.edges + k - 1].shape>>]

RECURSIVE UniqueLoop(_, _, _, _)
UniqueLoop(ps, es, k, piece_set) ==
    IF k \notin DOMAIN ps THEN TRUE
    ELSE LET out_piece == PieceTuple(es, ps[k])
         IN IF out_piece \in piece_set THEN FALSE
            ELSE UniqueLoop(ps, es, k + 1, piece_set \cup {out_piece})

check_all_unique(ps, es) == UniqueLoop(ps, es, 0, {})

(***************************************************************************)
(* main: the generation loop, one action per statement; shuffle is split   *)
(* at its swaps.                                                           *)
(***************************************************************************)
NoBoard == <<>>

NoSwap == [from |-> <<0, 0>>, to |-> <<0, 0>>, result |-> TRUE, made |-> FALSE]

Init ==
    /\ \E s \in Sizes : width = s[1] /\ height = s[2]
    /\ pieces = NoBoard
    /\ edges = NoBoard
    /\ pc = "start"
    /\ border = <<>>
    /\ centers = <<>>
    /\ unread = {}
    /\ cur = <<>>
    /\ collapse_ok = FALSE
    /\ unique_ok = FALSE
    /\ last = NoSwap
    /\ calls = [swaps |-> 0, merges |-> 0]
    /\ saved_pieces = NoBoard

\* line 438: board = Board(width, height), at the first and at every later
\* pass of the loop
Construct ==
    /\ pieces' = InitialPieces(width, height)
    /\ edges' = InitialEdges(width, height)
    /\ border' = <<>>
    /\ centers' = <<>>
    /\ unread' = {}
    /\ cur' = <<>>
    /\ UNCHANGED <<width, height, collapse_ok, unique_ok, last, calls, saved_pieces>>

NewBoard ==
    /\ pc = "start"
    /\ Construct
    /\ pc' = "connect"

\* line 440
ConnectAdjacentEdges ==
    /\ pc = "connect"
    /\ edges' = connect_adjacent_edges(width, height, pieces, edges).edges
    /\ pc' = "shuffle"
    /\ UNCHANGED <<width, height, pieces, border, centers, unread, cur,
                   collapse_ok, unique_ok, last, calls, saved_pieces>>

\* lines 214-230
ShuffleCollectBorder ==
    /\ pc = "shuffle"
    /\ border' = BorderList(width, height)
    /\ unread' = DOMAIN border'
    /\ pc' = "border"
    /\ UNCHANGED <<width, height, pieces, edges, centers, cur,
                   collapse_ok, unique_ok, last, calls, saved_pieces>>

\* an `assert self.swap(a, b)` of shuffle: the next position of main
SwapStep(a, b, next_pc) ==
    LET r == swap(width, pieces, edges, a, b)
    IN /\ pieces' = r.pieces
       /\ pc' = IF r.ok THEN next_pc ELSE "assert_failed"

\* lines 232-238
BorderSwapFirst ==
    /\ pc = "border"
    /\ \E t \in Triples(unread) :
        /\ cur' = <<border[t[1]], border[t[2]], border[t[3]]>>
        /\ unread' = unread \ {t[1], t[2], t[3]}
        /\ SwapStep(border[t[1]], border[t[2]], "border2")
    /\ UNCHANGED <<width, height, edges, border, centers,
                   collapse_ok, unique_ok, last, calls, saved_pieces>>

\* line 239
BorderSwapSecond ==
    /\ pc = "border2"
    /\ SwapStep(cur[1], cur[3], "border")
    /\ cur' = <<>>
    /\ UNCHANGED <<width, height, edges, border, centers, unread,
                   collapse_ok, unique_ok, last, calls, saved_pieces>>

\* lines 232-247: the border loop ends (fewer than three entries are
\* left), the centers are collected and shuffled
BorderDone ==
    /\ pc = "border"
    /\ Cardinality(unread) < 3
    /\ centers' = CenterList(width, height)
    /\ unread' = DOMAIN centers'
    /\ pc' = "interior"
    /\ UNCHANGED <<width, height, pieces, edges, border, cur,
                   collapse_ok, unique_ok, last, calls, saved_pieces>>

\* lines 249-255
InteriorSwapFirst ==
    /\ pc = "interior"
    /\ \E t \in Triples(unread) :
        /\ cur' = <<centers[t[1]], centers[t[2]], centers[t[3]]>>
        /\ unread' = unread \ {t[1], t[2], t[3]}
        /\ SwapStep(centers[t[1]], centers[t[2]], "interior2")
    /\ UNCHANGED <<width, height, edges, border, centers,
                   collapse_ok, unique_ok, last, calls, saved_pieces>>

\* line 256
InteriorSwapSecond ==
    /\ pc = "interior2"
    /\ SwapStep(cur[1], cur[3], "interior3")
    /\ UNCHANGED <<width, height, edges, border, centers, unread, cur,
                   collapse_ok, unique_ok, last, calls, saved_pieces>>

\* line 258
InteriorRotate ==
    /\ pc = "interior3"
    /\ \E rotation \in Rotation :
        pieces' = [pieces EXCEPT
                     ![get_piece_index(width, cur[1])].rotation = rotation]
    /\ pc' = "interior"
    /\ cur' = <<>>
    /\ UNCHANGED <<width, height, edges, border, centers, unread,
                   collapse_ok, unique_ok, last, calls, saved_pieces>>

\* lines 249-253: the interior loop ends, shuffle returns
InteriorDone ==
    /\ pc = "interior"
    /\ Cardinality(unread) < 3
    /\ unread' = {}
    /\ pc' = "merge"
    /\ UNCHANGED <<width, height, pieces, edges, border, centers, cur,
                   collapse_ok, unique_ok, last, calls, saved_pieces>>

\* line 443
MergeEdges ==
    /\ pc = "merge"
    /\ LET r == merge_edges(width, height, pieces, edges)
       IN /\ edges' = r.edges
          /\ pc' = IF r.ok THEN "collapse" ELSE "crashed"
    /\ UNCHANGED <<width, height, pieces, border, centers, unread, cur,
                   collapse_ok, unique_ok, last, calls, saved_pieces>>

\* line 445: the returned value is computed and dropped by main; it is
\* kept in collapse_ok for the properties
CollapseEdges ==
    /\ pc = "collapse"
    /\ LET r == collapse_edges(edges)
       IN /\ edges' = r.edges
          /\ collapse_ok' = r.ok
    /\ pc' = "check"
    /\ UNCHANGED <<width, height, pieces, border, centers, unread, cur,
                   unique_ok, last, calls, saved_pieces>>

\* line 447, the call
CheckAllUnique ==
    /\ pc = "check"
    /\ unique_ok' = check_all_unique(pieces, edges)
    /\ pc' = "checked"
    /\ UNCHANGED <<width, height, pieces, edges, border, centers, unread, cur,
                   collapse_ok, last, calls, saved_pieces>>

\* Accept with the test of line 447 left out
AcceptUnconditionally ==
    /\ pc = "checked"
    /\ pc' = "accepted"
    /\ UNCHANGED <<width, height, pieces, edges, border, centers, unread, cur,
                   collapse_ok, unique_ok, last, calls, saved_pieces>>

\* lines 447-448: break
Accept ==
    /\ pc = "checked"
    /\ unique_ok
    /\ pc' = "accepted"
    /\ UNCHANGED <<width, height, pieces, edges, border, centers, unread, cur,
                   collapse_ok, unique_ok, last, calls, saved_pieces>>

\* lines 437-438: the test failed, the loop body runs again
Retry ==
    /\ pc = "checked"
    /\ ~unique_ok
    /\ Construct
    /\ pc' = "connect"

\* lines 450-453: the initial view
ShowInitial ==
    /\ pc = "accepted"
    /\ saved_pieces' = pieces
    /\ pieces' = InitialPieces(width, height)
    /\ pc' = "initial_view"
    /\ UNCHANGED <<width, height, edges, border, centers, unread, cur,
                   collapse_ok, unique_ok, last, calls>>

\* lines 455-457: the final view
ShowFinal ==
    /\ pc = "initial_view"
    /\ pieces' = saved_pieces
    /\ pc' = "final_view"
    /\ UNCHANGED <<width, height, edges, border, centers, unread, cur,
                   collapse_ok, unique_ok, last, calls, saved_pieces>>

Next ==
    \/ NewBoard
    \/ ConnectAdjacentEdges
    \/ ShuffleCollectBorder
    \/ BorderSwapFirst
    \/ BorderSwapSecond
    \/ BorderDone
    \/ InteriorSwapFirst
    \/ InteriorSwapSecond
    \/ InteriorRotate
    \/ InteriorDone
    \/ MergeEdges
    \/ CollapseEdges
    \/ CheckAllUnique
    \/ Accept
    \/ Retry
    \/ ShowInitial
    \/ ShowFinal

Spec == Init /\ [][Next]_vars

(***************************************************************************)
(* The Board class under a client that builds a board and then calls the   *)
(* public methods swap and merge_edges in any order, with any positions,   *)
(* before it calls collapse_edges.                                         *)
(***************************************************************************)
ApiInit ==
    /\ \E s \in ApiSizes : width = s[1] /\ height = s[2]
    /\ pieces = NoBoard
    /\ edges = NoBoard
    /\ pc = "api_start"
    /\ border = <<>>
    /\ centers = <<>>
    /\ unread = {}
    /\ cur = <<>>
    /\ collapse_ok = FALSE
    /\ unique_ok = FALSE
    /\ last = NoSwap
    /\ calls = [swaps |-> 0, merges |-> 0]
    /\ saved_pieces = NoBoard

\* Board(width, height)
ApiNewBoard ==
    /\ pc = "api_start"
    /\ Construct
    /\ pc' = "api_connect"

\* board.connect_adjacent_edges()
ApiConnect ==
    /\ pc = "api_connect"
    /\ edges' = connect_adjacent_edges(width, height, pieces, edges).edges
    /\ pc' = "api"
    /\ UNCHANGED <<width, height, pieces, border, centers, unread, cur,
                   collapse_ok, unique_ok, last, calls, saved_pieces>>

\* board.swap(from_index, to_index)
ApiSwap ==
    /\ pc = "api"
    /\ calls.swaps < MaxSwaps
    /\ \E from_index \in Positions(width, height) :
       \E to_index \in Positions(width, height) :
          LET r == swap(width, pieces, edges, from_index, to_index)
          IN /\ pieces' = r.pieces
             /\ last' = [from |-> from_index, to |-> to_index,
                         result |-> r.ok, made |-> TRUE]
    /\ calls' = [calls EXCEPT !.swaps = @ + 1]
    /\ UNCHANGED <<width, height, edges, pc, border, centers, unread, cur,
                   collapse_ok, unique_ok, saved_pieces>>

\* board.merge_edges()
ApiMerge ==
    /\ pc = "api"
    /\ calls.merges < MaxMerges
    /\ LET r == merge_edges(width, height, pieces, edges)
       IN /\ edges' = r.edges
          /\ pc' = IF r.ok THEN "api" ELSE "api_crashed"
    /\ calls' = [calls EXCEPT !.merges = @ + 1]
    /\ UNCHANGED <<width, height, pieces, border, centers, unread, cur,
                   collapse_ok, unique_ok, last, saved_pieces>>

\* board.collapse_edges()
ApiCollapse ==
    /\ pc = "api"
    /\ LET r == collapse_edges(edges)
       IN /\ edges' = r.edges
          /\ collapse_ok' = r.ok
    /\ pc' = "api_collapsed"
    /\ UNCHANGED <<width, height, pieces, border, centers, unread, cur,
                   unique_ok, last, calls, saved_pieces>>

ApiNext ==
    \/ ApiNewBoard
    \/ ApiConnect
    \/ ApiSwap
    \/ ApiMerge
    \/ ApiCollapse

ApiSpec == ApiInit /\ [][ApiNext]_vars

(***************************************************************************)
(* Vocabulary of the properties.                                           *)
(***************************************************************************)
\* main has connected the board's edges
Connected == pc \notin {"start", "connect"}

\* collapse_edges has returned in the current attempt
Collapsed == pc \in {"check", "checked", "accepted", "initial_view", "final_view"}

\* the edge slot of position p that faces direction d
Facing(p, d) == get_edge_index(width, pieces, p, d)

HasConnection(e) == edges[e].connection # None

Complementary(e, f) == {edges[e].shape, edges[f].shape} = {Knob, Socket}

\* some piece sits at a position other than the one it was built at
Shuffled == \E k \in DOMAIN pieces : pieces[k].id # k

\* some piece that was built with rotation R0 away from the left border
\* now has another rotation
InteriorRotated ==
    \E k \in DOMAIN pieces :
        /\ pieces[k].rotation # R0
        /\ InitialPieces(width, height)[k].rotation = R0
        /\ k % width # 0

\* the position slot (p, d) faces the outside of the board
FacesOutside(p, d) == ~in_bounds(width, height, Neighbour(p, d))

\* the seams of the current arrangement: p's edge towards q and q's edge
\* towards p carry one group id and complementary shapes
SeamsFit ==
    \A p \in Positions(width, height) : \A d \in Direction :
        ~FacesOutside(p, d) =>
            LET e == Facing(p, d)
                f == Facing(Neighbour(p, d), inverse(d))
            IN /\ edges[e].group # None
               /\ edges[e].group = edges[f].group
               /\ Complementary(e, f)

\* every edge and its connection carry one group id and complementary shapes
ConnectionsFit ==
    \A e \in DOMAIN edges :
        HasConnection(e) =>
            /\ edges[e].group # None
            /\ edges[e].group = edges[edges[e].connection].group
            /\ Complementary(e, edges[e].connection)

\* the (edge, parity) pairs reached from `frontier` when a merge keeps the
\* parity and a connection flips it
RECURSIVE ParityReach(_, _, _)
ParityReach(es, frontier, visited) ==
    IF frontier = {} THEN visited
    ELSE LET step == UNION {
                 {<<m, n[2]>> : m \in es[n[1]].merges}
                     \cup (IF es[n[1]].connection = None THEN {}
                           ELSE {<<es[n[1]].connection, 1 - n[2]>>})
                 : n \in frontier}
             fresh == step \ visited
         IN ParityReach(es, fresh, visited \cup fresh)

\* the group adjacency graph has a 2-colouring: no edge is forced to both
\* parities
TwoColourable(es) ==
    \A e \in DOMAIN es :
        es[e].connection # None =>
            <<e, 1>> \notin ParityReach(es, {<<e, 0>>}, {<<e, 0>>})

\* two pieces whose edges, read in storage order, agree in group and shape
TwoPiecesAlikeInStorageOrder ==
    \E k \in DOMAIN pieces : \E l \in DOMAIN pieces :
        /\ k # l
        /\ \A o \in 0..(EDGE_COUNT - 1) :
            /\ edges[pieces[k].edges + o].group = edges[pieces[l].edges + o].group
            /\ edges[pieces[k].edges + o].shape = edges[pieces[l].edges + o].shape

\* two positions whose edges, read Up, Right, Down, Left, agree in group
\* and shape
TwoPiecesAlikeInDirectionOrder ==
    \E p \in Positions(width, height) : \E q \in Positions(width, height) :
        /\ p # q
        /\ \A d \in Direction :
            /\ edges[Facing(p, d)].group = edges[Facing(q, d)].group
            /\ edges[Facing(p, d)].shape = edges[Facing(q, d)].shape

\* the border positions that are no corner
BorderNonCorner(W, H) ==
    {p \in Positions(W, H) :
        /\ p[1] \in {0, H - 1} \/ p[2] \in {0, W - 1}
        /\ ~(p[1] \in {0, H - 1} /\ p[2] \in {0, W - 1})}

\* what one pass of the loop of main decides on a shuffled board
AttemptAccepted(W, H, ps, es) ==
    LET m == merge_edges(W, H, ps, es)
    IN m.ok /\ check_all_unique(ps, collapse_edges(m.edges).edges)

\* some outcome of the interior phase of shuffle leads to an accepted board
RECURSIVE SomeInteriorOutcomeAccepted(_, _, _, _, _, _)
SomeInteriorOutcomeAccepted(W, H, ps, es, cs, un) ==
    IF Cardinality(un) < 3 THEN AttemptAccepted(W, H, ps, es)
    ELSE \E t \in Triples(un) : \E rotation \in Rotation :
            LET p1 == swap(W, ps, es, cs[t[1]], cs[t[2]]).pieces
                p2 == swap(W, p1, es, cs[t[1]], cs[t[3]]).pieces
                p3 == [p2 EXCEPT ![get_piece_index(W, cs[t[1]])].rotation = rotation]
            IN SomeInteriorOutcomeAccepted(W, H, p3, es, cs, un \ {t[1], t[2], t[3]})

\* some outcome of shuffle leads to an accepted board
RECURSIVE SomeBorderOutcomeAccepted(_, _, _, _, _, _)
SomeBorderOutcomeAccepted(W, H, ps, es, bs, un) ==
    IF Cardinality(un) < 3
    THEN SomeInteriorOutcomeAccepted(W, H, ps, es, CenterList(W, H),
                                     DOMAIN CenterList(W, H))
    ELSE \E t \in Triples(un) :
            LET p1 == swap(W, ps, es, bs[t[1]], bs[t[2]]).pieces
                p2 == swap(W, p1, es, bs[t[1]], bs[t[3]]).pieces
            IN SomeBorderOutcomeAccepted(W, H, p2, es, bs, un \ {t[1], t[2], t[3]})

SomeOutcomeAccepted(W, H) ==
    LET ps == InitialPieces(W, H)
        es == connect_adjacent_edges(W, H, ps, InitialEdges(W, H)).edges
    IN SomeBorderOutcomeAccepted(W, H, ps, es, BorderList(W, H),
                                 DOMAIN BorderList(W, H))

(***************************************************************************)
(* Properties.                                                             *)
(***************************************************************************)

\* C1: on every board main builds (construction, connect_adjacent_edges,
\* shuffle, merge_edges), once collapse_edges has returned success, every
\* edge that has a connection and that connection carry Knob and Socket in
\* some order; no connected edge stays Flat.
C1_ConnectedEdgesGetOppositeShapes ==
    (Collapsed /\ collapse_ok) =>
        \A e \in DOMAIN edges :
            HasConnection(e) => Complementary(e, edges[e].connection)

\* a collapsed board whose pieces were moved by both phases of shuffle
C1_Witness ==
    /\ pc = "check"
    /\ collapse_ok
    /\ Shuffled
    /\ InteriorRotated
    /\ \E e \in DOMAIN edges : HasConnection(e)

\* C2: collapse_edges returns failure exactly when the group adjacency
\* graph is not 2-colourable (this includes a group that holds an edge and
\* that edge's connection), and success only when it is bipartite.
C2_CollapseFailsIffNotTwoColourable ==
    pc = "api_collapsed" => (collapse_ok <=> TwoColourable(edges))

C4_AcceptedOnlyAfterCollapseAndCheck ==
    /\ [](pc \in {"accepted", "initial_view", "final_view"} =>
            (collapse_ok /\ unique_ok /\ ~TwoPiecesAlikeInStorageOrder))
    /\ [][(pc = "checked" /\ pc' # "checked" /\ ~(collapse_ok /\ unique_ok)) =>
            /\ pc' = "connect"
            /\ pieces' = InitialPieces(width, height)
            /\ edges' = InitialEdges(width, height)
            /\ border' = <<>> /\ centers' = <<>>]_vars

\* an accepted board that shuffle changed
C4_Witness == pc = "accepted" /\ collapse_ok /\ unique_ok /\ Shuffled

\* C5: the list of the border phase of shuffle holds every border position
\* that is no corner exactly once, and nothing else, for square and
\* non-square boards.
C5_BorderListIsTheBorder ==
    pc = "border" =>
        /\ Range(border) = BorderNonCorner(width, height)
        /\ Len(border) = Cardinality(BorderNonCorner(width, height))

\* C6: after connect_adjacent_edges and after every swap and rotation of
\* shuffle, the edge slot of position p facing d has no connection exactly
\* when p has no neighbour in direction d; so every position keeps its
\* number of unconnected edges, no assert of shuffle fails and merge_edges
\* reads no missing connection.
C6_UnconnectedExactlyAtTheOutside ==
    /\ pc \notin {"assert_failed", "crashed"}
    /\ Connected =>
        \A p \in Positions(width, height) :
            /\ \A d \in Direction :
                 ~HasConnection(Facing(p, d)) <=> FacesOutside(p, d)
            /\ NoneCount(width, pieces, edges, p)
                 = Cardinality({d \in Direction : FacesOutside(p, d)})

\* shuffle has moved border pieces and rotated an interior piece, and
\* merge_edges has run
C6_Witness ==
    /\ pc = "collapse"
    /\ InteriorRotated
    /\ \E k \in DOMAIN pieces :
        pieces[k].id # k /\ InitialPieces(width, height)[k].rotation # R0

\* C7: a swap between positions whose pieces differ in their number of
\* unconnected edges returns failure and leaves the pieces (id, edge base
\* and rotation at every position) and the edges (every connection) as
\* they were.
C7_FailedSwapChangesNothing ==
    [][(/\ calls'.swaps = calls.swaps + 1
        /\ NoneCount(width, pieces, edges, last'.from)
             # NoneCount(width, pieces, edges, last'.to))
       => (~last'.result /\ pieces' = pieces /\ edges' = edges)]_vars

\* a swap between a position with and one without the same count was made
C7_Witness ==
    /\ last.made
    /\ ~last.result
    /\ NoneCount(width, pieces, edges, last.from)
         # NoneCount(width, pieces, edges, last.to)

\* C8: for every valid size some outcome of shuffle gives a board that
\* main accepts, and on the 2 x 2 board the first attempt collapses and is
\* accepted.
C8_EverySizeHasAnAcceptedOutcome ==
    /\ pc = "start" => SomeOutcomeAccepted(width, height)
    /\ (pc = "checked" /\ width = 2 /\ height = 2) => (collapse_ok /\ unique_ok)

\* C9: after a successful collapse_edges, an edge and every edge of its
\* merges carry the same group id and shape (hence so do edges linked by
\* a chain of merges), every edge with a connection has a group id, and
\* every edge without one is Flat with no group id.
C9_MergedEdgesShareGroupAndShape ==
    (Collapsed /\ collapse_ok) =>
        \A e \in DOMAIN edges :
            /\ \A f \in edges[e].merges :
                 /\ edges[f].group = edges[e].group
                 /\ edges[f].shape = edges[e].shape
            /\ HasConnection(e) => edges[e].group # None
            /\ ~HasConnection(e) =>
                 (edges[e].shape = Flat /\ edges[e].group = None)

\* a collapsed board on which some edge is merged with another edge
C9_Witness ==
    /\ pc = "check"
    /\ collapse_ok
    /\ \E e \in DOMAIN edges : \E f \in edges[e].merges : f # e
    /\ \E e \in DOMAIN edges : ~HasConnection(e)

\* C10: on every accepted board the two edges that face each other across
\* a seam of the final arrangement carry the same group id and
\* complementary shapes; so do the seams of the initial arrangement and
\* every edge and its connection.
C10_AcceptedSeamsFit ==
    pc \in {"accepted", "initial_view", "final_view"} =>
        (SeamsFit /\ ConnectionsFit)

\* the initial view of an accepted board that shuffle changed
C10_Witness ==
    /\ pc = "initial_view"
    /\ \E k \in DOMAIN saved_pieces : saved_pieces[k].id # k

====
